---- MODULE Spec2Model ----
(***************************************************************************)
(* A model of the generation pipeline of ai-draw-nexus:                    *)
(*   - useAIGenerate.generate and attemptMermaidAutoFix (the orchestrator  *)
(*     with its bounded self-heal loop),                                   *)
(*   - streamOpenAI / streamAnthropic (the SSE transcoder pump),           *)
(*   - createEffectiveEnv, validateAccessPassword and the two chat         *)
(*     handlers (api/chat.ts and functions/api/chat.ts),                   *)
(*   - callOpenAI / callAnthropic (request shaping, response unwrapping).  *)
(* Each part has its own specification (SpecGen, SpecStream, SpecChat,     *)
(* SpecCall); the variables of the other parts stay at their idle value.   *)
(***************************************************************************)
EXTENDS Integers, Sequences, FiniteSets, TLC

VARIABLES
  editor,      \* useEditorStore state
  chat,        \* useChatStore state
  call,        \* the locals of one generate call and its position
  modelCalls,  \* every request handed to aiService, in order
  valLog,      \* every validateContent call with its answer, in order
  versions,    \* VersionRepository contents
  project,     \* ProjectRepository: thumbnail and touch count
  toasts,      \* useToast calls
  provider,    \* which transcoder runs: "openai" (streamOpenAI) or "anthropic"
  upstream,    \* the text of the upstream response body, as a sequence of units
  hasBody,     \* whether response.body is a stream (FALSE: null)
  pos,         \* how many units reader.read() has delivered
  buffer,      \* the pump's carry-over `buffer`
  pending,     \* the lines of the current chunk the for loop has yet to visit
  out,         \* the chunks written to the output stream, in order
  ppc,         \* the pump's position
  released,    \* how many times reader.releaseLock() ran
  closed,      \* how many times writer.close() closed the output
  aborted,     \* the consumer cancelled the readable side
  pumpEnd,     \* how the pump ended
  cutInLine,   \* history: some read ended inside a line (left a carry-over)
  adp,         \* one call of callOpenAI, callAnthropic, streamOpenAI or streamAnthropic
  fetches,     \* every request sent upstream, in order
  req,         \* the HTTP request a chat handler received
  srv,         \* the server's environment (process.env, or the Pages env binding)
  hnd,         \* the chat handler's locals and position
  resp,        \* the HTTP response of the chat handler
  calls        \* generate calls running side by side on the same stores

genVars == <<editor, chat, call, modelCalls, valLog, versions, project, toasts>>

strVars == <<provider, upstream, hasBody, pos, buffer, pending, out, ppc,
             released, closed, aborted, pumpEnd, cutInLine>>

adpVars == <<adp, fetches>>

hndVars == <<req, srv, hnd, resp>>

ovlVars == <<calls>>

vars == <<genVars, strVars, adpVars, hndVars, ovlVars>>

\* What the steps of one part leave alone.
notGen == <<strVars, adpVars, hndVars, ovlVars>>

notStream == <<genVars, adpVars, hndVars, ovlVars>>

notAdapter == <<genVars, strVars, hndVars, ovlVars>>

notChat == <<genVars, strVars, ovlVars>>

\* JavaScript's undefined, and the text `${undefined}` renders to.
Undef == "undefined"

(***************************************************************************)
(* Bounds of the model.                                                    *)
(***************************************************************************)
\* Distinct diagram payloads extractCode can yield (1..MaxPayloads; 0 is '').
MaxPayloads == 2

Payloads == 1..MaxPayloads

\* Terminated lines in an upstream body (longer fixed examples are added).
MaxLines == 2

\* Messages in a list handed to an adapter.
MaxMessages == 3

\* Manual saves counted by the editor store.
MaxSaves == 2

\* generate calls that may run side by side.
MaxCalls == 2

(***************************************************************************)
(* Idle values: what a part's variables hold while another part runs.      *)
(***************************************************************************)
\* No generate calls side by side.
OverlapIdle == calls = <<>>

StreamIdle ==
  /\ provider = "openai" /\ upstream = <<>> /\ hasBody = FALSE /\ pos = 0
  /\ buffer = <<>> /\ pending = <<>> /\ out = <<>> /\ ppc = "idle"
  /\ released = 0 /\ closed = 0 /\ aborted = FALSE /\ pumpEnd = ""
  /\ cutInLine = FALSE

\* No environment (an adapter or handler that has not been entered).
NoEnv ==
  [AI_PROVIDER |-> "", AI_BASE_URL |-> "", AI_API_KEY |-> "", AI_MODEL_ID |-> ""]

NoResult == [kind |-> "none", text |-> "", exemptHeader |-> Undef, error |-> <<>>]

\* No upstream response (yet).
NoUpstream ==
  [ok |-> FALSE, text |-> "", json |-> FALSE, data |-> [none |-> TRUE]]

idleAdp ==
  [pc |-> "idle", fn |-> "none", messages |-> <<>>, env |-> NoEnv,
   exempt |-> FALSE, response |-> NoUpstream, result |-> NoResult]

AdapterIdle == adp = idleAdp /\ fetches = <<>>

NoLLMConfig ==
  [given |-> FALSE, provider |-> Undef, baseUrl |-> Undef, apiKey |-> Undef,
   modelId |-> Undef]

NoBody ==
  [messages |-> [given |-> FALSE, isArray |-> FALSE, list |-> <<>>],
   stream |-> FALSE, llmConfig |-> NoLLMConfig]

NoResponse ==
  [kind |-> "none", status |-> 0, exemptHeader |-> Undef, error |-> <<>>,
   content |-> ""]

idleHnd ==
  [pc |-> "idle", valid |-> FALSE, exempt |-> FALSE, body |-> NoBody,
   hasCustomLLM |-> FALSE, effectiveExempt |-> FALSE, effectiveEnv |-> NoEnv,
   provider |-> "", fn |-> "none"]

ChatIdle ==
  /\ req = [handler |-> "none", method |-> "", password |-> Undef]
  /\ srv = [AI_PROVIDER |-> Undef, AI_BASE_URL |-> Undef, AI_API_KEY |-> Undef,
            AI_MODEL_ID |-> Undef, ACCESS_PASSWORD |-> Undef]
  /\ hnd = idleHnd
  /\ resp = NoResponse

(***************************************************************************)
(* Orchestrator: constants and stores.                                     *)
(***************************************************************************)
Engines == {"mermaid", "excalidraw", "drawio"}

USE_STREAMING == TRUE

MAX_MERMAID_FIX_ATTEMPTS == 3

\* `const useTwoPhase = false` inside generate.
useTwoPhase == FALSE

\* Messages a validator may attach to an invalid answer (error?: string).
ValErrors == {"e1", "e2"}

\* What validateContent may answer: {valid: true} or {valid: false, error?}.
ValidationResults ==
  {[valid |-> TRUE, error |-> Undef]} \cup
  {[valid |-> FALSE, error |-> e] : e \in ValErrors \cup {Undef}}

\* Messages of errors thrown by aiService and by the repositories.
ModelErrors == {"upstream failed"}

RepositoryErrors == {"storage failed"}

initialState ==
  [currentProject |-> "null", currentContent |-> 0, isLoading |-> FALSE,
   error |-> "null", hasUnsavedChanges |-> FALSE, lastSavedContent |-> 0,
   versionSaveCount |-> 0, thumbnailGetter |-> FALSE]

setProject(s, p) == [s EXCEPT !.currentProject = p]

\* A variant that raises the flag on every edit.
setContentAlwaysDirty(s, content) ==
  [s EXCEPT !.currentContent = content, !.hasUnsavedChanges = TRUE]

setContent(s, content) ==
  [s EXCEPT !.currentContent = content,
            !.hasUnsavedChanges = (content # s.lastSavedContent)]

setLoading(s, loading) == [s EXCEPT !.isLoading = loading]

setError(s, e) == [s EXCEPT !.error = e]

markAsSaved(s) ==
  [s EXCEPT !.hasUnsavedChanges = FALSE,
            !.lastSavedContent = s.currentContent,
            !.versionSaveCount = s.versionSaveCount + 1]

setContentFromVersion(s, content) ==
  [s EXCEPT !.currentContent = content,
            !.lastSavedContent = content,
            !.hasUnsavedChanges = FALSE]

setThumbnailGetter(s, g) == [s EXCEPT !.thumbnailGetter = g]

\* Chat store: addMessage appends and returns the new id (its index here).
addMessage(c, m) == [c EXCEPT !.messages = Append(c.messages, m)]

updateMessage(c, id, status, content) ==
  [c EXCEPT !.messages[id] = [@ EXCEPT !.status = status, !.content = content]]

setStreaming(c, b) == [c EXCEPT !.isStreaming = b]

(***************************************************************************)
(* Orchestrator: the decisions of generate and attemptMermaidAutoFix.      *)
(***************************************************************************)
\* `if (!validation.valid && engineType === 'mermaid')`
ShouldAutoFixAnyEngine(validation, engineType) == ~validation.valid

ShouldAutoFix(validation, engineType) ==
  ~validation.valid /\ engineType = "mermaid"

\* `while (attempts < MAX_MERMAID_FIX_ATTEMPTS)`
LoopContinuesOffByOne(attempts) == attempts <= MAX_MERMAID_FIX_ATTEMPTS

LoopContinues(attempts) == attempts < MAX_MERMAID_FIX_ATTEMPTS

\* `if (validation.valid) return fixedCode` inside the loop.
FixAcceptedNever(validation) == FALSE

FixAccepted(validation) == validation.valid

\* `if (!validation.valid) throw new Error(...)`
RejectsNothing(validation) == FALSE

Rejects(validation) == ~validation.valid

\* `validation.error || 'Unknown error'`
ErrorOrUnknown(validation) ==
  IF validation.error = Undef \/ validation.error = ""
  THEN "Unknown error" ELSE validation.error

\* A variant whose message does not come from the validator's answer.
InvalidOutputErrorGeneric(engineType, validation) ==
  [kind |-> "invalid", engine |-> engineType, detail |-> "Generation failed"]

\* new Error(`Invalid ${engineType} output: ${validation.error}`)
InvalidOutputError(engineType, validation) ==
  [kind |-> "invalid", engine |-> engineType, detail |-> validation.error]

ThrownError(msg) == [kind |-> "thrown", engine |-> "", detail |-> msg]

NoError == [kind |-> "none", engine |-> "", detail |-> ""]

idleCall ==
  [pc |-> "idle", engineType |-> "null", isInitial |-> FALSE,
   assistantMsgId |-> 0, contentBefore |-> 0,
   finalCode |-> 0, validatedCode |-> 0,
   currentCode |-> 0, currentError |-> "", attempts |-> 0,
   fixedCode |-> 0, thumbnail |-> 0, installed |-> <<>>,
   outcome |-> "none", error |-> NoError]

\* A variant whose prompt always embeds the payload and error of the first
\* validation.
FixRequestStale(c) ==
  [kind |-> "fix", attempt |-> c.attempts, code |-> c.validatedCode,
   error |-> ErrorOrUnknown(valLog'[1]), afterVal |-> Len(valLog')]

\* The request one pass of the fix loop hands to aiService: the prompt embeds
\* currentError and currentCode.
FixRequest(c) ==
  [kind |-> "fix", attempt |-> c.attempts, code |-> c.currentCode,
   error |-> c.currentError, afterVal |-> Len(valLog')]

\* A variant without the finally block: the error is reported and the flags
\* stay up.
CatchWithoutFinally(c, err) ==
  /\ chat' = updateMessage(chat, c.assistantMsgId, "error", "Error")
  /\ editor' = editor
  /\ toasts' = Append(toasts, [kind |-> "error", error |-> err])
  /\ call' = [c EXCEPT !.pc = "done", !.outcome = "error", !.error = err]

\* The catch block followed by the finally block of generate.
CatchFinally(c, err) ==
  /\ chat' = setStreaming(updateMessage(chat, c.assistantMsgId, "error", "Error"), FALSE)
  /\ editor' = setLoading(editor, FALSE)
  /\ toasts' = Append(toasts, [kind |-> "error", error |-> err])
  /\ call' = [c EXCEPT !.pc = "done", !.outcome = "error", !.error = err]

\* One pass of the while loop up to its model call: attempts++, the progress
\* message, the fix prompt, the request.
StartFixAttempt(c0) ==
  LET c == [c0 EXCEPT !.attempts = @ + 1] IN
  /\ chat' = updateMessage(chat, c.assistantMsgId, "streaming", "fixing")
  /\ modelCalls' = Append(modelCalls, FixRequest(c))
  /\ call' = [c EXCEPT !.pc = "fixing"]
  /\ UNCHANGED <<editor, toasts>>

\* Lines 194-204: the validated code becomes the editor content;
\* `installed` records each argument of setContentFromVersion.
Accept(c) ==
  /\ editor' = setContentFromVersion(editor, c.validatedCode)
  /\ chat' = updateMessage(chat, c.assistantMsgId, "complete", "Diagram generated successfully.")
  /\ call' = [c EXCEPT !.finalCode = c.validatedCode, !.pc = "saving",
                       !.installed = Append(@, c.validatedCode)]
  /\ UNCHANGED <<toasts>>

(***************************************************************************)
(* Orchestrator: the steps of generate, one per await.                     *)
(***************************************************************************)
GenIdle ==
  /\ editor = initialState
  /\ chat = [isStreaming |-> FALSE, messages |-> <<>>]
  /\ call = idleCall
  /\ modelCalls = <<>> /\ valLog = <<>> /\ versions = <<>>
  /\ project = [thumbnail |-> 0, updates |-> 0]
  /\ toasts = <<>>

GenInit ==
  /\ \E p \in {"null"} \cup Engines, content \in {0, 1}, saved \in {0, 1},
        getter \in BOOLEAN :
       \* CanvasArea registers a thumbnail getter for drawio projects only.
       /\ getter => p = "drawio"
       /\ saved = 1 => content = 1
       /\ editor = [initialState EXCEPT !.currentProject = p,
                                     !.currentContent = content,
                                     !.lastSavedContent = saved,
                                     !.hasUnsavedChanges = (content # saved),
                                     !.thumbnailGetter = getter]
  /\ chat = [isStreaming |-> FALSE, messages |-> <<>>]
  /\ call = idleCall
  /\ modelCalls = <<>>
  /\ valLog = <<>>
  /\ versions = <<>>
  /\ project = [thumbnail |-> 0, updates |-> 0]
  /\ toasts = <<>>
  /\ StreamIdle /\ AdapterIdle /\ ChatIdle /\ OverlapIdle

\* generate(userInput, isInitial, attachments) up to its first await.
Generate(isInitial) ==
  /\ call.pc = "idle"
  /\ IF editor.currentProject = "null"
     THEN /\ call' = [call EXCEPT !.pc = "done", !.outcome = "noproject"]
          /\ UNCHANGED <<editor, chat, modelCalls>>
     ELSE LET withUser == addMessage(chat, [role |-> "user", status |-> "complete", content |-> "input"])
              withBoth == addMessage(withUser, [role |-> "assistant", status |-> "streaming", content |-> ""])
              id == Len(withBoth.messages)
              phase == IF isInitial /\ useTwoPhase THEN "elements"
                       ELSE IF isInitial THEN "initial" ELSE "edit"
          IN /\ chat' = setStreaming(
                          IF isInitial
                          THEN updateMessage(withBoth, id, "streaming", "generating")
                          ELSE withBoth, TRUE)
             /\ editor' = setLoading(editor, TRUE)
             /\ modelCalls' = Append(modelCalls,
                   [kind |-> phase, attempt |-> 0,
                    code |-> IF isInitial THEN 0 ELSE editor.currentContent,
                    error |-> "", afterVal |-> 0])
             /\ call' = [call EXCEPT !.pc = "generating",
                                     !.engineType = editor.currentProject,
                                     !.isInitial = isInitial,
                                     !.assistantMsgId = id,
                                     !.contentBefore = editor.currentContent]
  /\ UNCHANGED <<valLog, versions, project, toasts>>
  /\ UNCHANGED notGen

\* aiService.streamChat resolves and extractCode yields `code`.
ModelReturn(code) ==
  /\ call.pc = "generating"
  /\ IF call.isInitial /\ useTwoPhase /\ modelCalls[Len(modelCalls)].kind = "elements"
     THEN /\ chat' = updateMessage(chat, call.assistantMsgId, "streaming", "connections")
          /\ modelCalls' = Append(modelCalls,
                [kind |-> "links", attempt |-> 0, code |-> code,
                 error |-> "", afterVal |-> 0])
          /\ UNCHANGED call
     ELSE /\ call' = [call EXCEPT !.finalCode = code, !.validatedCode = code,
                                  !.pc = "validating"]
          /\ UNCHANGED <<chat, modelCalls>>
  /\ UNCHANGED <<editor, valLog, versions, project, toasts>>
  /\ UNCHANGED notGen

\* A variant in which a failed fix request is tried again.
ModelThrowRetries(msg) ==
  /\ call.pc \in {"generating", "fixing"}
  /\ UNCHANGED <<valLog, versions, project>>
  /\ IF call.pc = "fixing" /\ call.attempts < MAX_MERMAID_FIX_ATTEMPTS
     THEN StartFixAttempt(call)
     ELSE /\ CatchFinally(call, ThrownError(msg))
          /\ UNCHANGED modelCalls
  /\ UNCHANGED notGen

\* aiService.streamChat rejects, in generate or in the fix loop.
ModelThrow(msg) ==
  /\ call.pc \in {"generating", "fixing"}
  /\ CatchFinally(call, ThrownError(msg))
  /\ UNCHANGED <<modelCalls, valLog, versions, project>>
  /\ UNCHANGED notGen

\* Line 176 and what follows it up to the next await.
Validate(validation) ==
  /\ call.pc = "validating"
  /\ valLog' = Append(valLog, [code |-> call.validatedCode, engine |-> call.engineType,
                               valid |-> validation.valid, error |-> validation.error])
  /\ IF ShouldAutoFix(validation, call.engineType)
     THEN StartFixAttempt([call EXCEPT !.currentCode = call.validatedCode,
                                       !.currentError = ErrorOrUnknown(validation),
                                       !.attempts = 0])
     ELSE IF Rejects(validation)
     THEN /\ CatchFinally(call, InvalidOutputError(call.engineType, validation))
          /\ UNCHANGED modelCalls
     ELSE /\ Accept(call)
          /\ UNCHANGED modelCalls
  /\ UNCHANGED <<versions, project>>
  /\ UNCHANGED notGen

\* The fix request resolves and extractCode yields `code`.
FixReturn(code) ==
  /\ call.pc = "fixing"
  /\ call' = [call EXCEPT !.fixedCode = code, !.pc = "fixValidating"]
  /\ UNCHANGED <<editor, chat, modelCalls, valLog, versions, project, toasts>>
  /\ UNCHANGED notGen

\* Line 461 and the rest of the loop body.
FixValidate(validation) ==
  /\ call.pc = "fixValidating"
  /\ LET fixedCode == call.fixedCode
         c == call
     IN /\ valLog' = Append(valLog, [code |-> fixedCode, engine |-> "mermaid",
                                     valid |-> validation.valid, error |-> validation.error])
        /\ IF FixAccepted(validation)
           THEN /\ call' = [c EXCEPT !.validatedCode = fixedCode, !.pc = "revalidating"]
                /\ UNCHANGED <<editor, chat, modelCalls, toasts>>
           ELSE LET n == [c EXCEPT !.currentCode = fixedCode,
                                   !.currentError = ErrorOrUnknown(validation)]
                IN IF LoopContinues(n.attempts)
                   THEN StartFixAttempt(n)
                   ELSE /\ call' = [n EXCEPT !.validatedCode = n.currentCode,
                                             !.pc = "revalidating"]
                        /\ UNCHANGED <<editor, chat, modelCalls, toasts>>
  /\ UNCHANGED <<versions, project>>
  /\ UNCHANGED notGen

\* Line 187: the caller validates what attemptMermaidAutoFix returned.
Revalidate(validation) ==
  /\ call.pc = "revalidating"
  /\ valLog' = Append(valLog, [code |-> call.validatedCode, engine |-> call.engineType,
                               valid |-> validation.valid, error |-> validation.error])
  /\ IF Rejects(validation)
     THEN CatchFinally(call, InvalidOutputError(call.engineType, validation))
     ELSE Accept(call)
  /\ UNCHANGED <<modelCalls, versions, project>>
  /\ UNCHANGED notGen

\* VersionRepository.create resolves.
SaveVersion ==
  /\ call.pc = "saving"
  /\ versions' = Append(versions, [content |-> call.finalCode,
                                   changeSummary |-> IF call.isInitial THEN "initial" ELSE "edit"])
  /\ call' = [call EXCEPT !.pc = "thumbnail"]
  /\ UNCHANGED <<editor, chat, modelCalls, valLog, project, toasts>>
  /\ UNCHANGED notGen

\* VersionRepository.create or the last ProjectRepository.update rejects.
RepositoryThrow(msg) ==
  /\ call.pc \in {"saving", "touch"}
  /\ CatchFinally(call, ThrownError(msg))
  /\ UNCHANGED <<modelCalls, valLog, versions, project>>
  /\ UNCHANGED notGen

\* thumbnailGetter() or generateThumbnail(finalCode, engineType) settles:
\* ok = FALSE is a rejection, swallowed by the inner catch.
Thumbnail(ok, blank) ==
  /\ call.pc = "thumbnail"
  /\ LET viaGetter == call.engineType = "drawio" /\ editor.thumbnailGetter
         picture == IF viaGetter THEN editor.currentContent ELSE call.finalCode
         thumbnail == IF blank \/ (~viaGetter /\ call.engineType = "drawio") THEN 0 ELSE picture
     IN call' = IF ok /\ thumbnail # 0
                THEN [call EXCEPT !.thumbnail = thumbnail, !.pc = "saveThumb"]
                ELSE [call EXCEPT !.pc = "touch"]
  /\ UNCHANGED <<editor, chat, modelCalls, valLog, versions, project, toasts>>
  /\ UNCHANGED notGen

\* ProjectRepository.update(id, {thumbnail}) settles (a rejection is swallowed).
SaveThumbnail(ok) ==
  /\ call.pc = "saveThumb"
  /\ project' = IF ok THEN [project EXCEPT !.thumbnail = call.thumbnail] ELSE project
  /\ call' = [call EXCEPT !.pc = "touch"]
  /\ UNCHANGED <<editor, chat, modelCalls, valLog, versions, toasts>>
  /\ UNCHANGED notGen

\* ProjectRepository.update(id, {}) resolves; the success toast; finally.
Touch ==
  /\ call.pc = "touch"
  /\ project' = [project EXCEPT !.updates = @ + 1]
  /\ toasts' = Append(toasts, [kind |-> "success", error |-> NoError])
  /\ chat' = setStreaming(chat, FALSE)
  /\ editor' = setLoading(editor, FALSE)
  /\ call' = [call EXCEPT !.pc = "done", !.outcome = "success"]
  /\ UNCHANGED <<modelCalls, valLog, versions>>
  /\ UNCHANGED notGen

GenNext ==
  \/ \E isInitial \in BOOLEAN : Generate(isInitial)
  \/ \E code \in Payloads : ModelReturn(code)
  \/ \E msg \in ModelErrors : ModelThrow(msg)
  \/ \E v \in ValidationResults : Validate(v)
  \/ \E code \in Payloads : FixReturn(code)
  \/ \E v \in ValidationResults : FixValidate(v)
  \/ \E v \in ValidationResults : Revalidate(v)
  \/ SaveVersion
  \/ \E msg \in RepositoryErrors : RepositoryThrow(msg)
  \/ \E ok \in BOOLEAN, blank \in BOOLEAN : Thumbnail(ok, blank)
  \/ \E ok \in BOOLEAN : SaveThumbnail(ok)
  \/ Touch

SpecGen == GenInit /\ [][GenNext]_vars

(***************************************************************************)
(* Orchestrator: properties.                                               *)
(***************************************************************************)
\* Requests issued inside attemptMermaidAutoFix so far.
FixCalls == Cardinality({i \in DOMAIN modelCalls : modelCalls[i].kind = "fix"})

AllInvalid == \A i \in DOMAIN valLog : ~valLog[i].valid

LastValidation == valLog[Len(valLog)]

\* C1 (self-heal cap): a Mermaid generation never issues more than 3 fix
\* requests; when every validator answer was invalid and no request failed,
\* the finished call has issued exactly 3 fix requests and ended in the
\* terminal "Invalid mermaid output" error; and when the validator answers
\* valid for fix attempt 2 (after two invalid answers), exactly 2 fix
\* requests have been issued, in that state and in every later one.
C1_SelfHealCap ==
  /\ FixCalls <= 3
  /\ \A i \in DOMAIN modelCalls :
       modelCalls[i].kind = "fix" => modelCalls[i].attempt \in 1..3
  /\ (/\ call.pc = "done"
      /\ call.engineType = "mermaid"
      /\ valLog # <<>>
      /\ AllInvalid
      /\ call.error.kind # "thrown")
     => (/\ FixCalls = 3
         /\ call.outcome = "error"
         /\ call.error.kind = "invalid"
         /\ call.installed = <<>>)
  /\ (/\ Len(valLog) >= 3
      /\ call.engineType = "mermaid"
      /\ ~valLog[1].valid /\ ~valLog[2].valid /\ valLog[3].valid)
     => FixCalls = 2

\* C1 witness: a finished Mermaid call whose validator always said invalid.
C1_Witness ==
  /\ call.pc = "done" /\ call.engineType = "mermaid"
  /\ Len(valLog) = 5 /\ AllInvalid
  /\ FixCalls = 3 /\ call.outcome = "error" /\ call.error.kind = "invalid"

\* C2 (invalid output is never accepted): every payload handed to
\* setContentFromVersion, every persisted version and every saved thumbnail
\* is the payload of the latest validator call, and that call answered
\* valid; a call that installed nothing leaves the editor content, the
\* versions and the thumbnail as they were.
C2_InvalidNeverAccepted ==
  /\ \A i \in DOMAIN call.installed :
       /\ valLog # <<>>
       /\ LastValidation.valid
       /\ LastValidation.code = call.installed[i]
       /\ editor.currentContent = call.installed[i]
  /\ \A i \in DOMAIN versions :
       /\ call.installed # <<>>
       /\ LastValidation.valid
       /\ LastValidation.code = versions[i].content
  /\ project.thumbnail # 0 =>
       /\ call.installed # <<>>
       /\ LastValidation.valid
       /\ LastValidation.code = project.thumbnail
  /\ (call.pc # "idle" /\ call.outcome # "noproject" /\ call.installed = <<>>) =>
       /\ editor.currentContent = call.contentBefore
       /\ versions = <<>>
       /\ project.thumbnail = 0

\* C2 witness: a payload fixed by the loop was installed, persisted and
\* thumbnailed.
C2_Witness ==
  /\ call.pc = "done" /\ call.outcome = "success"
  /\ FixCalls >= 1
  /\ Len(versions) = 1 /\ versions[1].content = call.installed[1]
  /\ project.thumbnail = call.installed[1]

\* C3 (auto-repair is Mermaid-only): every fix request was issued for a
\* mermaid project right after a validator answer of invalid; for excalidraw
\* and drawio an invalid first validation ends the call at once with the
\* terminal error, with no fix request, no further model request and no
\* further validator call.
C3_MermaidOnlyRepair ==
  /\ \A i \in DOMAIN modelCalls :
       modelCalls[i].kind = "fix" =>
         /\ call.engineType = "mermaid"
         /\ modelCalls[i].afterVal \in DOMAIN valLog
         /\ ~valLog[modelCalls[i].afterVal].valid
         /\ valLog[modelCalls[i].afterVal].engine = "mermaid"
  /\ (/\ call.engineType \in {"excalidraw", "drawio"}
      /\ valLog # <<>>
      /\ ~valLog[1].valid)
     => (/\ FixCalls = 0
         /\ Len(modelCalls) = 1
         /\ Len(valLog) = 1
         /\ call.pc = "done"
         /\ call.outcome = "error"
         /\ call.error = InvalidOutputError(call.engineType, valLog[1])
         /\ call.installed = <<>>)

\* C3 witness: an excalidraw generation whose first validation failed.
C3_Witness ==
  /\ call.pc = "done" /\ call.engineType = "excalidraw"
  /\ Len(valLog) = 1 /\ ~valLog[1].valid
  /\ call.outcome = "error"

(***************************************************************************)
(* Stream transcoder: text.  The upstream body is a sequence of units, the *)
(* pieces of text a network read may end between.                          *)
(***************************************************************************)
NL == "\n"

Whitespace == {" ", "\r"}

DataPrefix == "data: "

DoneText == "[DONE]"

\* {"choices":[{"delta":{"content":"<text>"}}]} around its text.
OAOpen == "{\"choices\":[{\"delta\":{\"content\":\""

OAClose == "\"}}]}"

\* {"type":"content_block_delta","delta":{"text":"<text>"}} around its text.
ANOpen == "{\"type\":\"content_block_delta\",\"delta\":{\"text\":\""

ANClose == "\"}}"

\* {"content":"<text>"}, what JSON.stringify({ content }) renders.
CanonOpen == "{\"content\":\""

CanonClose == "\"}"

Texts == {"ab", "cd"}

OpenAIFrame(text) == <<DataPrefix, OAOpen, text, OAClose>>

AnthropicFrame(text) == <<DataPrefix, ANOpen, text, ANClose>>

\* A delta whose content is the empty string.
OpenAIEmptyFrame == <<DataPrefix, OAOpen, OAClose>>

DoneFrame == <<DataPrefix, DoneText>>

MalformedFrame == <<DataPrefix, "{not json">>

\* The lines an upstream body is made of.
LineTemplates ==
  {OpenAIFrame("ab"), AnthropicFrame("cd"), OpenAIEmptyFrame, DoneFrame,
   MalformedFrame, <<>>}

\* Line ends: "\n" and "\r\n".
LineEnds == {<<NL>>, <<"\r", NL>>}

\* What may follow the last line end: nothing, or a line that has no end.
Tails == {<<>>, DoneFrame, OpenAIFrame("ab")}

RECURSIVE Join(_, _)
Join(lines, end) ==
  IF lines = <<>> THEN <<>>
  ELSE Head(lines) \o end \o Join(Tail(lines), end)

SeqsUpTo(S, n) == UNION {[1..k -> S] : k \in 0..n}

\* The body of section 8: two deltas and the sentinel, each ended by "\n\n".
ExampleUpstream ==
  Join(<<OpenAIFrame("ab"), <<>>, OpenAIFrame("cd"), <<>>, DoneFrame, <<>>>>, <<NL>>)

\* The body of section 8 with `data: {not json` between the two deltas.
MalformedExample ==
  Join(<<OpenAIFrame("ab"), <<>>, MalformedFrame, <<>>, OpenAIFrame("cd"), <<>>,
         DoneFrame, <<>>>>, <<NL>>)

Upstreams ==
  {Join(ls, e) \o t : ls \in SeqsUpTo(LineTemplates, MaxLines), e \in LineEnds, t \in Tails}
  \cup {ExampleUpstream, MalformedExample}

(***************************************************************************)
(* Stream transcoder: the string operations of the pump.                   *)
(***************************************************************************)
\* buffer.split('\n'): at least one element, the last one the text after the
\* last "\n".
RECURSIVE split(_)
split(s) ==
  IF \E i \in 1..Len(s) : s[i] = NL
  THEN LET i == CHOOSE j \in 1..Len(s) : s[j] = NL /\ \A k \in 1..(j - 1) : s[k] # NL
       IN <<SubSeq(s, 1, i - 1)>> \o split(SubSeq(s, i + 1, Len(s)))
  ELSE <<s>>

\* A pump that forgets the carry-over.
poppedForgotten(lines) == <<>>

\* `lines.pop() || ''` and what pop leaves in `lines`.
popped(lines) == lines[Len(lines)]

\* A pump that also visits the fragment after the last "\n".
afterPopKeepsLast(lines) == lines

afterPop(lines) == SubSeq(lines, 1, Len(lines) - 1)

\* line.trim()
RECURSIVE trim(_)
trim(line) ==
  IF line # <<>> /\ Head(line) \in Whitespace THEN trim(Tail(line))
  ELSE IF line # <<>> /\ line[Len(line)] \in Whitespace
       THEN trim(SubSeq(line, 1, Len(line) - 1))
       ELSE line

\* `!trimmed || !trimmed.startsWith('data: ')`: a trimmed line that is the
\* prefix alone has lost its blank and does not start with it.
isDataLine(trimmed) == Len(trimmed) > 1 /\ trimmed[1] = DataPrefix

\* trimmed.slice(6)
slice6(trimmed) == Tail(trimmed)

\* A variant for which JSON.parse accepts any payload as an OpenAI delta.
jsonParseAnything(data) ==
  [ok |-> TRUE, choicesContent |-> "ab", type |-> "content_block_delta",
   deltaText |-> "ab"]

\* JSON.parse(data): the parsed value, or ok = FALSE where it throws.
jsonParse(data) ==
  IF Len(data) = 3 /\ data[1] = OAOpen /\ data[2] \in Texts /\ data[3] = OAClose
  THEN [ok |-> TRUE, choicesContent |-> data[2], type |-> Undef, deltaText |-> Undef]
  ELSE IF data = <<OAOpen, OAClose>>
  THEN [ok |-> TRUE, choicesContent |-> "", type |-> Undef, deltaText |-> Undef]
  ELSE IF Len(data) = 3 /\ data[1] = ANOpen /\ data[2] \in Texts /\ data[3] = ANClose
  THEN [ok |-> TRUE, choicesContent |-> Undef, type |-> "content_block_delta",
        deltaText |-> data[2]]
  ELSE IF data = <<ANOpen, ANClose>>
  THEN [ok |-> TRUE, choicesContent |-> Undef, type |-> "content_block_delta",
        deltaText |-> ""]
  ELSE [ok |-> FALSE, choicesContent |-> Undef, type |-> Undef, deltaText |-> Undef]

\* A variant for which every value counts as given.
truthyAlways(v) == TRUE

truthy(v) == v # Undef /\ v # ""

\* A variant that takes the delta of either provider's shape.
deltaOfEitherShape(prov, parsed) ==
  IF truthy(parsed.choicesContent) THEN parsed.choicesContent
  ELSE IF truthy(parsed.deltaText) THEN parsed.deltaText
  ELSE Undef

\* The delta text a parsed event carries for this transcoder, or Undef.
\* streamOpenAI: parsed.choices?.[0]?.delta?.content;
\* streamAnthropic: parsed.type === 'content_block_delta' && parsed.delta?.text.
deltaOf(prov, parsed) ==
  IF prov = "anthropic"
  THEN IF parsed.type = "content_block_delta" /\ truthy(parsed.deltaText)
       THEN parsed.deltaText ELSE Undef
  ELSE IF truthy(parsed.choicesContent) THEN parsed.choicesContent ELSE Undef

\* encoder.encode(`data: ${JSON.stringify({ content })}\n\n`)
DeltaEvent(text) == <<DataPrefix, CanonOpen, text, CanonClose, NL, NL>>

\* encoder.encode('data: [DONE]\n\n')
DoneEvent == <<DataPrefix, DoneText, NL, NL>>

\* The body of the for loop for one line: the chunks it writes (none or one).
writesOf(prov, line) ==
  LET trimmed == trim(line) IN
  IF ~isDataLine(trimmed) THEN <<>>
  ELSE LET data == slice6(trimmed) IN
       IF data = <<DoneText>> THEN <<DoneEvent>>
       ELSE LET parsed == jsonParse(data) IN
            IF parsed.ok /\ deltaOf(prov, parsed) # Undef
            THEN <<DeltaEvent(deltaOf(prov, parsed))>>
            ELSE <<>>

(***************************************************************************)
(* Stream transcoder: the pump of streamOpenAI / streamAnthropic.          *)
(***************************************************************************)
StreamInit ==
  /\ provider \in {"openai", "anthropic"}
  /\ upstream \in Upstreams
  /\ hasBody \in BOOLEAN
  \* A response without a body stream has no text.
  /\ ~hasBody => upstream = <<>>
  /\ pos = 0 /\ buffer = <<>> /\ pending = <<>> /\ out = <<>>
  /\ ppc = "start"
  /\ released = 0 /\ closed = 0 /\ aborted = FALSE /\ pumpEnd = ""
  /\ cutInLine = FALSE
  /\ GenIdle /\ AdapterIdle /\ ChatIdle /\ OverlapIdle

\* The finally block: reader.releaseLock(), then writer.close(), which
\* rejects without closing when the consumer has cancelled the stream.
Finally(how) ==
  /\ released' = released + 1
  /\ closed' = IF aborted THEN closed ELSE closed + 1
  /\ ppc' = "ended"
  /\ pumpEnd' = how

\* `const reader = response.body?.getReader(); if (!reader) return`
PumpStart ==
  /\ ppc = "start"
  /\ IF hasBody
     THEN ppc' = "reading" /\ pumpEnd' = pumpEnd
     ELSE ppc' = "ended" /\ pumpEnd' = "noReader"
  /\ UNCHANGED <<provider, upstream, hasBody, pos, buffer, pending, out,
                 released, closed, aborted, cutInLine>>
  /\ UNCHANGED notStream

\* reader.read() delivers the next n units; the buffer is split.
ReadChunk(n) ==
  /\ LET lines == split(buffer \o SubSeq(upstream, pos + 1, pos + n)) IN
     /\ buffer' = popped(lines)
     /\ pending' = afterPop(lines)
     /\ ppc' = IF afterPop(lines) = <<>> THEN "reading" ELSE "lines"
  /\ pos' = pos + n
  /\ cutInLine' = (cutInLine \/ buffer' # <<>>)
  /\ UNCHANGED <<provider, upstream, hasBody, out, released, closed, aborted, pumpEnd>>
  /\ UNCHANGED notStream

\* `await reader.read()` resolves with a chunk of any size.
Read ==
  /\ ppc = "reading"
  /\ \E n \in 1..(Len(upstream) - pos) : ReadChunk(n)

\* One pass of the for loop.  A write to a cancelled stream rejects: the
\* while loop is left through the finally block.
Line ==
  /\ ppc = "lines"
  /\ LET w == writesOf(provider, Head(pending)) IN
     IF w # <<>> /\ aborted
     THEN /\ Finally("writeError")
          /\ UNCHANGED <<out, pending>>
     ELSE /\ out' = out \o w
          /\ pending' = Tail(pending)
          /\ ppc' = IF Tail(pending) = <<>> THEN "reading" ELSE "lines"
          /\ UNCHANGED <<released, closed, pumpEnd>>
  /\ UNCHANGED <<provider, upstream, hasBody, pos, buffer, aborted, cutInLine>>
  /\ UNCHANGED notStream

\* reader.read() reports done: break, then the finally block.
ReadDone ==
  /\ ppc = "reading"
  /\ pos = Len(upstream)
  /\ Finally("eof")
  /\ UNCHANGED <<provider, upstream, hasBody, pos, buffer, pending, out, aborted,
                 cutInLine>>
  /\ UNCHANGED notStream

\* reader.read() rejects (the connection fails): the finally block runs and
\* the error leaves the pump.
ReadError ==
  /\ ppc = "reading"
  /\ Finally("readError")
  /\ UNCHANGED <<provider, upstream, hasBody, pos, buffer, pending, out, aborted,
                 cutInLine>>
  /\ UNCHANGED notStream

\* The consumer of the response cancels the readable side.
Abort ==
  /\ ppc # "idle"
  /\ ~aborted
  /\ closed = 0
  /\ aborted' = TRUE
  /\ UNCHANGED <<provider, upstream, hasBody, pos, buffer, pending, out, ppc,
                 released, closed, pumpEnd, cutInLine>>
  /\ UNCHANGED notStream

StreamNext ==
  \/ PumpStart
  \/ Read
  \/ Line
  \/ ReadDone
  \/ ReadError
  \/ Abort

SpecStream == StreamInit /\ [][StreamNext]_vars

(***************************************************************************)
(* Stream transcoder: properties.                                          *)
(***************************************************************************)
\* What the pump writes when the whole text arrives in one read: the writes
\* of every line that is followed by "\n", in order.
RECURSIVE writesOfLines(_, _)
writesOfLines(prov, lines) ==
  IF lines = <<>> THEN <<>>
  ELSE writesOf(prov, Head(lines)) \o writesOfLines(prov, Tail(lines))

OneRead(prov, text) == writesOfLines(prov, afterPop(split(text)))

\* C4 (framing is independent of chunking): when the upstream ends normally
\* and the consumer stayed, the chunks written are those of the same body
\* delivered in a single read, however the reads cut it; for the body of
\* section 8 streamOpenAI writes exactly {"content":"ab"}, {"content":"cd"},
\* [DONE].
C4_ChunkingIndependent ==
  (ppc = "ended" /\ pumpEnd = "eof" /\ ~aborted) =>
    /\ out = OneRead(provider, upstream)
    /\ (provider = "openai" /\ upstream = ExampleUpstream) =>
         out = <<DeltaEvent("ab"), DeltaEvent("cd"), DoneEvent>>

\* C4 witness: the body of section 8 went through streamOpenAI in reads that
\* ended inside lines (the carry-over held text when the last read came).
C4_Witness ==
  /\ provider = "openai" /\ upstream = ExampleUpstream
  /\ ppc = "ended" /\ pumpEnd = "eof" /\ cutInLine
  /\ out = <<DeltaEvent("ab"), DeltaEvent("cd"), DoneEvent>>

\* C5 (the sentinel is the last canonical event): no chunk follows a
\* written `data: [DONE]`.
C5_DoneIsLast ==
  \A i \in DOMAIN out : out[i] = DoneEvent => i = Len(out)

\* C6 (release and close exactly once): a pump that ended, the consumer
\* still there, released the upstream reader once and closed the output once.
C6_ReleaseCloseOnce ==
  (ppc = "ended" /\ ~aborted) => (released = 1 /\ closed = 1)

(***************************************************************************)
(* The provider adapters (ai-providers, stream-openai, stream-anthropic):  *)
(* callOpenAI, callAnthropic, streamOpenAI and streamAnthropic.  A message *)
(* is [role, content]; content is a string (isString) or a list of parts.  *)
(* The text of a part and a URL are sequences of units, so that the image  *)
(* conversion works on what the URL is made of; the empty sequence is ''.  *)
(***************************************************************************)
StringContent(text) == [isString |-> TRUE, text |-> text, parts |-> <<>>]

PartsContent(parts) == [isString |-> FALSE, text |-> "", parts |-> parts]

TextPart(text) == [type |-> "text", text |-> text, url |-> <<>>]

ImagePart(url) == [type |-> "image_url", text |-> <<>>, url |-> url]

DataScheme == "data:"

Base64Mark == ";base64,"

ImageMimes == {"image/png"}

DataImageUrl == <<DataScheme, "image/png", Base64Mark, "AAAA">>

RemoteUrl == <<"https://example.com/a.png">>

DataTextUrl == <<DataScheme, "text/plain", Base64Mark, "AAAA">>

SystemMessage(text) == [role |-> "system", content |-> StringContent(text)]

UserMessage(text) == [role |-> "user", content |-> StringContent(text)]

AssistantMessage(text) == [role |-> "assistant", content |-> StringContent(text)]

UserPartsMessage ==
  [role |-> "user",
   content |-> PartsContent(<<TextPart(<<"look">>), ImagePart(DataImageUrl),
                              ImagePart(RemoteUrl), TextPart(<<>>),
                              ImagePart(DataTextUrl), ImagePart(<<>>)>>)]

SystemPartsMessage ==
  [role |-> "system", content |-> PartsContent(<<TextPart(<<"S3">>)>>)]

MessageTemplates ==
  {SystemMessage("S1"), SystemMessage("S2"), UserMessage("U1"),
   AssistantMessage("A1"), UserPartsMessage, SystemPartsMessage}

MessageLists == SeqsUpTo(MessageTemplates, MaxMessages)

\* url.startsWith('data:')
startsWithData(url) == Len(url) > 0 /\ url[1] = DataScheme

\* A variant that accepts any mime type before `;base64,`.
matchesAnyMime(url) ==
  /\ Len(url) = 4
  /\ url[1] = DataScheme /\ url[3] = Base64Mark
  /\ url[4] # ""

\* url.match(/^data:(image\/[^;]+);base64,(.+)$/)
matches(url) ==
  /\ Len(url) = 4
  /\ url[1] = DataScheme /\ url[2] \in ImageMimes /\ url[3] = Base64Mark
  /\ url[4] # ""

AnthropicText(text) ==
  [type |-> "text", text |-> text, media_type |-> "", data |-> ""]

AnthropicImage(mime, data) ==
  [type |-> "image", text |-> <<>>, media_type |-> mime, data |-> data]

\* The callback of parts.map(...)
convertPart(part) ==
  IF part.type = "text" THEN AnthropicText(part.text)
  ELSE IF part.type = "image_url" /\ part.url # <<>>
  THEN IF startsWithData(part.url) /\ matches(part.url)
       THEN AnthropicImage(part.url[2], part.url[4])
       ELSE AnthropicText(<<"[Image URL: ">> \o part.url \o <<"]">>)
  ELSE AnthropicText(<<>>)

\* The callback of .filter(...)
keptPart(part) == part.type = "image" \/ (part.type = "text" /\ part.text # <<>>)

convertContentPartsToAnthropic(parts) ==
  SelectSeq([i \in DOMAIN parts |-> convertPart(parts[i])], keptPart)

isSystem(m) == m.role = "system"

isNotSystem(m) == m.role # "system"

\* messages.find((m) => m.role === 'system'): the first one, or none.
findSystem(messages) == SelectSeq(messages, isSystem)

\* messages.filter((m) => m.role !== 'system')
nonSystemMessages(messages) == SelectSeq(messages, isNotSystem)

anthropicMessage(m) ==
  [role |-> m.role,
   content |-> IF m.content.isString THEN m.content
               ELSE PartsContent(convertContentPartsToAnthropic(m.content.parts))]

anthropicMessages(messages) ==
  LET rest == nonSystemMessages(messages)
  IN  [i \in DOMAIN rest |-> anthropicMessage(rest[i])]

\* typeof systemMessage?.content === 'string' ? systemMessage.content : ''
systemString(messages) ==
  LET found == findSystem(messages)
  IN  IF found # <<>> /\ found[1].content.isString THEN found[1].content.text
      ELSE ""

MAX_TOKENS == 64000

ANTHROPIC_VERSION == "2023-06-01"

AdapterFns == {"callOpenAI", "callAnthropic", "streamOpenAI", "streamAnthropic"}

AnthropicFns == {"callAnthropic", "streamAnthropic"}

StreamFns == {"streamOpenAI", "streamAnthropic"}

\* The fetch each adapter sends.  A key the body does not have is Undef.
OpenAIRequest(messages, env, stream) ==
  [url |-> <<env.AI_BASE_URL, "/chat/completions">>,
   auth |-> <<"Authorization", "Bearer ", env.AI_API_KEY>>,
   version |-> Undef,
   body |-> [model |-> env.AI_MODEL_ID, messages |-> messages,
             max_tokens |-> MAX_TOKENS, system |-> Undef, stream |-> stream]]

AnthropicRequest(messages, env, stream) ==
  [url |-> <<env.AI_BASE_URL, "/messages">>,
   auth |-> <<"x-api-key", "", env.AI_API_KEY>>,
   version |-> ANTHROPIC_VERSION,
   body |-> [model |-> env.AI_MODEL_ID, messages |-> anthropicMessages(messages),
             max_tokens |-> MAX_TOKENS, system |-> systemString(messages),
             stream |-> stream]]

RequestOf(fn, messages, env) ==
  IF fn = "callOpenAI" THEN OpenAIRequest(messages, env, "false")
  ELSE IF fn = "streamOpenAI" THEN OpenAIRequest(messages, env, "true")
  ELSE IF fn = "callAnthropic" THEN AnthropicRequest(messages, env, Undef)
  ELSE AnthropicRequest(messages, env, "true")

\* Upstream JSON bodies of a 2xx response: records whose keys are the keys
\* the body has.
OpenAIBodies ==
  {[choices |-> <<[message |-> [content |-> "hi"]]>>],
   [choices |-> <<[message |-> [content |-> ""]]>>],
   [choices |-> <<[message |-> [role |-> "assistant"]]>>],
   [choices |-> <<[index |-> 0]>>],
   [choices |-> <<>>]}

AnthropicBodies ==
  {[content |-> <<[type |-> "text", text |-> "hi"]>>],
   [content |-> <<[type |-> "tool_use"]>>],
   [content |-> <<>>]}

\* A 2xx JSON body that has neither `choices` nor `content`.
OtherBody == [error |-> "overloaded"]

JsonBodies == OpenAIBodies \cup AnthropicBodies \cup {OtherBody}

UpstreamResponses ==
  {[ok |-> TRUE, text |-> "", json |-> TRUE, data |-> b] : b \in JsonBodies}
  \cup {[ok |-> TRUE, text |-> "<html>", json |-> FALSE, data |-> OtherBody],
        [ok |-> FALSE, text |-> "rate limited", json |-> FALSE, data |-> OtherBody],
        [ok |-> FALSE, text |-> "{\"error\":\"bad key\"}", json |-> FALSE,
         data |-> OtherBody]}

Returned(text) ==
  [kind |-> "text", text |-> text, exemptHeader |-> Undef, error |-> <<>>]

\* new Response(readable, {headers: {..., 'X-Quota-Exempt': exempt ? 'true' : 'false'}})
StreamResponse(exempt) ==
  [kind |-> "stream", text |-> "", exemptHeader |-> IF exempt THEN "true" ELSE "false",
   error |-> <<>>]

Threw(message) ==
  [kind |-> "error", text |-> "", exemptHeader |-> Undef, error |-> message]

TypeErrorMessage == <<"TypeError: Cannot read properties of undefined">>

SyntaxErrorMessage == <<"SyntaxError: Unexpected token">>

NetworkErrorMessage == <<"fetch failed">>

NotConfigured == <<"AI_API_KEY not configured">>

\* A variant that leaves the upstream body out of the error.
ApiErrorWithoutBody(fn, text) ==
  <<IF fn \in AnthropicFns THEN "Anthropic API error: " ELSE "OpenAI API error: ",
    "">>

ApiError(fn, text) ==
  <<IF fn \in AnthropicFns THEN "Anthropic API error: " ELSE "OpenAI API error: ",
    text>>

\* data.choices[0]?.message?.content || ''
unwrapOpenAI(data) ==
  IF "choices" \notin DOMAIN data THEN Threw(TypeErrorMessage)
  ELSE IF Len(data.choices) = 0 THEN Returned("")
  ELSE IF "message" \notin DOMAIN data.choices[1] THEN Returned("")
  ELSE IF "content" \notin DOMAIN data.choices[1].message THEN Returned("")
  ELSE Returned(data.choices[1].message.content)

\* data.content[0]?.text || ''
unwrapAnthropic(data) ==
  IF "content" \notin DOMAIN data THEN Threw(TypeErrorMessage)
  ELSE IF Len(data.content) = 0 THEN Returned("")
  ELSE IF "text" \notin DOMAIN data.content[1] THEN Returned("")
  ELSE Returned(data.content[1].text)

\* What an adapter does with the upstream response.
ResultOf(fn, exempt, r) ==
  IF ~r.ok THEN Threw(ApiError(fn, r.text))
  ELSE IF fn \in StreamFns THEN StreamResponse(exempt)
  ELSE IF ~r.json THEN Threw(SyntaxErrorMessage)
  ELSE IF fn = "callOpenAI" THEN unwrapOpenAI(r.data)
  ELSE unwrapAnthropic(r.data)

AdapterEnvs ==
  {[AI_PROVIDER |-> "openai", AI_BASE_URL |-> "https://llm.example/v1",
    AI_API_KEY |-> k, AI_MODEL_ID |-> "m1"] : k \in {"", "sk-1"}}

StartAdapter(fn, messages, env, exempt) ==
  [pc |-> "start", fn |-> fn, messages |-> messages, env |-> env,
   exempt |-> exempt, response |-> NoUpstream, result |-> NoResult]

\* An adapter called on its own, with any message list.
AdapterInit ==
  /\ \E fn \in AdapterFns, messages \in MessageLists, env \in AdapterEnvs,
        exempt \in BOOLEAN :
       /\ fn \notin StreamFns => ~exempt
       /\ adp = StartAdapter(fn, messages, env, exempt)
  /\ fetches = <<>>
  /\ GenIdle /\ StreamIdle /\ ChatIdle /\ OverlapIdle

\* From the entry of the adapter to its `await fetch(...)`.
AdapterSend ==
  /\ adp.pc = "start"
  /\ IF ~truthy(adp.env.AI_API_KEY)
     THEN /\ adp' = [adp EXCEPT !.pc = "done", !.result = Threw(NotConfigured)]
          /\ UNCHANGED fetches
     ELSE /\ fetches' = Append(fetches, RequestOf(adp.fn, adp.messages, adp.env))
          /\ adp' = [adp EXCEPT !.pc = "fetching"]
  /\ UNCHANGED notAdapter

\* The fetch resolved with a response; the adapter runs to its end.
FetchResolve(r) ==
  /\ adp.pc = "fetching"
  /\ adp' = [adp EXCEPT !.pc = "done", !.response = r,
                         !.result = ResultOf(adp.fn, adp.exempt, r)]
  /\ UNCHANGED fetches
  /\ UNCHANGED notAdapter

\* The fetch rejected (no response at all).
FetchReject ==
  /\ adp.pc = "fetching"
  /\ adp' = [adp EXCEPT !.pc = "done", !.result = Threw(NetworkErrorMessage)]
  /\ UNCHANGED fetches
  /\ UNCHANGED notAdapter

AdapterNext ==
  \/ AdapterSend
  \/ \E r \in UpstreamResponses : FetchResolve(r)
  \/ FetchReject

SpecCall == AdapterInit /\ [][AdapterNext]_vars

\* The first message of the list when it is a system message with a string.
LeadingSystem(messages) ==
  IF messages # <<>> /\ messages[1].role = "system" /\ messages[1].content.isString
  THEN <<messages[1]>> ELSE <<>>

\* C9 (the Anthropic message split loses no message): in the request that
\* callAnthropic or streamAnthropic sends, the leading system message of the
\* list, if there is one, is the top-level system string, and every other
\* message of the list is in the messages array, in the original order.
C9_SplitLosesNoMessage ==
  (adp.fn \in AnthropicFns /\ Len(fetches) = 1) =>
    LET lead == LeadingSystem(adp.messages)
        others == SubSeq(adp.messages, Len(lead) + 1, Len(adp.messages))
        sent == fetches[1].body
    IN  /\ sent.system = (IF lead = <<>> THEN "" ELSE lead[1].content.text)
        /\ Len(sent.messages) = Len(others)
        /\ \A i \in DOMAIN others : sent.messages[i] = anthropicMessage(others[i])

\* The 2xx JSON bodies in which the field an adapter reads is absent.
FieldAbsent(fn, data) ==
  IF fn = "callOpenAI"
  THEN \/ "choices" \notin DOMAIN data
       \/ Len(data.choices) = 0
       \/ "message" \notin DOMAIN data.choices[1]
       \/ "content" \notin DOMAIN data.choices[1].message
  ELSE \/ "content" \notin DOMAIN data
       \/ Len(data.content) = 0
       \/ "text" \notin DOMAIN data.content[1]

\* C10 (empty-field degradation): whenever callOpenAI or callAnthropic is
\* given a 2xx JSON body in which the expected field is absent (empty or
\* missing choices/content, missing message, content or text), it returns
\* the empty string and does not throw.
C10_EmptyFieldDegrades ==
  (adp.pc = "done" /\ adp.fn \in {"callOpenAI", "callAnthropic"}
     /\ adp.response.ok /\ adp.response.json
     /\ FieldAbsent(adp.fn, adp.response.data))
  => adp.result = Returned("")

(***************************************************************************)
(* The chat endpoint: the edge handler (api/chat.ts) and the Pages handler *)
(* (functions/api/chat.ts).  srv holds the raw environment: process.env    *)
(* for the edge handler, the env binding for the Pages handler; an unset   *)
(* variable is Undef.  The edge handler's password check is the function   *)
(* of functions/api/_shared/auth.ts applied to getEnv().                   *)
(***************************************************************************)
DEFAULT_PROVIDER == "openai"

DEFAULT_BASE_URL == "https://api.openai.com/v1"

DEFAULT_MODEL_ID == "gpt-4o-mini"

\* a || b
or(a, b) == IF truthy(a) THEN a ELSE b

getEnv(processEnv) ==
  [AI_PROVIDER |-> or(processEnv.AI_PROVIDER, DEFAULT_PROVIDER),
   AI_BASE_URL |-> or(processEnv.AI_BASE_URL, DEFAULT_BASE_URL),
   AI_API_KEY |-> or(processEnv.AI_API_KEY, ""),
   AI_MODEL_ID |-> or(processEnv.AI_MODEL_ID, DEFAULT_MODEL_ID),
   ACCESS_PASSWORD |-> processEnv.ACCESS_PASSWORD]

\* A variant that merges the override whether or not it has an API key.
createEffectiveEnvAlwaysMerges(llmConfig, processEnv) ==
  LET env == getEnv(processEnv)
  IN  [AI_PROVIDER |-> or(llmConfig.provider, env.AI_PROVIDER),
       AI_BASE_URL |-> or(llmConfig.baseUrl, env.AI_BASE_URL),
       AI_API_KEY |-> llmConfig.apiKey,
       AI_MODEL_ID |-> or(llmConfig.modelId, env.AI_MODEL_ID)]

createEffectiveEnv(llmConfig, processEnv) ==
  LET env == getEnv(processEnv)
  IN  IF ~llmConfig.given \/ ~truthy(llmConfig.apiKey) THEN env
      ELSE [AI_PROVIDER |-> or(llmConfig.provider, env.AI_PROVIDER),
            AI_BASE_URL |-> or(llmConfig.baseUrl, env.AI_BASE_URL),
            AI_API_KEY |-> llmConfig.apiKey,
            AI_MODEL_ID |-> or(llmConfig.modelId, env.AI_MODEL_ID)]

\* A variant that turns away a request without a password when one is
\* configured.
validateAccessPasswordRequired(password, configuredPassword) ==
  IF ~truthy(configuredPassword) THEN [valid |-> TRUE, exempt |-> FALSE]
  ELSE IF password = configuredPassword THEN [valid |-> TRUE, exempt |-> TRUE]
  ELSE [valid |-> FALSE, exempt |-> FALSE]

validateAccessPassword(password, configuredPassword) ==
  IF ~truthy(configuredPassword) THEN [valid |-> TRUE, exempt |-> FALSE]
  ELSE IF truthy(password)
  THEN IF password = configuredPassword THEN [valid |-> TRUE, exempt |-> TRUE]
       ELSE [valid |-> FALSE, exempt |-> FALSE]
  ELSE [valid |-> TRUE, exempt |-> FALSE]

\* handleCors, onRequestOptions: new Response(null, {headers: corsHeaders})
PreflightResponse ==
  [kind |-> "preflight", status |-> 200, exemptHeader |-> Undef, error |-> <<>>,
   content |-> ""]

\* A JSON {error} response; it carries the CORS headers only.
ErrorResponse(status, message) ==
  [kind |-> "json", status |-> status, exemptHeader |-> Undef, error |-> message,
   content |-> ""]

\* The JSON {content} response with quotaHeaders.
ContentResponse(content, exempt) ==
  [kind |-> "json", status |-> 200,
   exemptHeader |-> IF exempt THEN "true" ELSE "false", error |-> <<>>,
   content |-> content]

\* The Response a stream adapter returned, passed on as it is.
PassedOn(result) ==
  [kind |-> "stream", status |-> 200, exemptHeader |-> result.exemptHeader,
   error |-> <<>>, content |-> ""]

\* The handler's promise rejected: the platform answers, not the handler.
Rejected(message) ==
  [kind |-> "rejected", status |-> 0, exemptHeader |-> Undef, error |-> message,
   content |-> ""]

\* A variant whose streaming branch always takes the OpenAI-compatible
\* adapter.
adapterForStreamingOpenAI(providerName, stream) ==
  IF stream THEN "streamOpenAI"
  ELSE IF providerName = "anthropic" THEN "callAnthropic" ELSE "callOpenAI"

\* The switch (provider) of both branches.
adapterFor(providerName, stream) ==
  IF stream
  THEN IF providerName = "anthropic" THEN "streamAnthropic" ELSE "streamOpenAI"
  ELSE IF providerName = "anthropic" THEN "callAnthropic" ELSE "callOpenAI"

\* The 401 body's error text (the source's is in Chinese: "wrong access
\* password").
WrongPassword == <<"wrong access password">>

Handlers == {"edge", "pages"}

\* The Pages platform routes POST to onRequestPost and OPTIONS to
\* onRequestOptions; the edge handler sees every method.
Methods(handler) ==
  IF handler = "edge" THEN {"POST", "GET", "OPTIONS"} ELSE {"POST", "OPTIONS"}

\* headers.get('X-Access-Password'): absent (null), empty, right or wrong.
Passwords == {Undef, "", "pw", "other"}

ServerEnvs ==
  [AI_PROVIDER : {Undef, "", "anthropic", "azure"},
   AI_BASE_URL : {Undef, "https://llm.example/v1"},
   AI_API_KEY : {Undef, "sk-1"},
   AI_MODEL_ID : {"m1"},
   ACCESS_PASSWORD : {Undef, "pw"}]

LLMConfigs ==
  {NoLLMConfig} \cup
  [given : {TRUE}, provider : {Undef, "", "anthropic"},
   baseUrl : {Undef, "https://own.example/v1"}, apiKey : {Undef, "", "sk-own"},
   modelId : {Undef, "m2"}]

MessagesFields ==
  {[given |-> FALSE, isArray |-> FALSE, list |-> <<>>],
   [given |-> TRUE, isArray |-> FALSE, list |-> <<>>],
   [given |-> TRUE, isArray |-> TRUE, list |-> <<UserMessage("U1")>>]}

ChatBodies == [messages : MessagesFields, stream : BOOLEAN, llmConfig : LLMConfigs]

ChatInit ==
  /\ \E handler \in Handlers :
       \E method \in Methods(handler), password \in Passwords :
         req = [handler |-> handler, method |-> method, password |-> password]
  /\ srv \in ServerEnvs
  /\ hnd = [idleHnd EXCEPT !.pc = "start"]
  /\ resp = NoResponse
  /\ GenIdle /\ StreamIdle /\ AdapterIdle /\ OverlapIdle

Respond(h, response) ==
  /\ hnd' = [h EXCEPT !.pc = "done"]
  /\ resp' = response

\* From the entry of the handler to `await request.json()`.
HandlerStart ==
  /\ hnd.pc = "start"
  /\ IF req.method = "OPTIONS" THEN Respond(hnd, PreflightResponse)
     ELSE IF req.method # "POST"
     THEN Respond(hnd, ErrorResponse(405, <<"Method not allowed">>))
     ELSE LET configured == IF req.handler = "edge"
                            THEN getEnv(srv).ACCESS_PASSWORD
                            ELSE srv.ACCESS_PASSWORD
              v == validateAccessPassword(req.password, configured)
              h == [hnd EXCEPT !.valid = v.valid, !.exempt = v.exempt]
          IN  IF ~v.valid THEN Respond(h, ErrorResponse(401, WrongPassword))
              ELSE hnd' = [h EXCEPT !.pc = "readBody"] /\ UNCHANGED resp
  /\ UNCHANGED <<req, srv, adp, fetches>>
  /\ UNCHANGED notChat

\* request.json() rejected: the catch answers 500.
BodyRejected ==
  /\ hnd.pc = "readBody"
  /\ Respond(hnd, ErrorResponse(500, SyntaxErrorMessage))
  /\ UNCHANGED <<req, srv, adp, fetches>>
  /\ UNCHANGED notChat

\* A variant that hands the request to the adapter before it looks at
\* `messages`.
ReadBodyCallsFirst(body) ==
  /\ hnd.pc = "readBody"
  /\ LET h0 == [hnd EXCEPT !.body = body]
         effectiveEnv ==
           IF req.handler = "edge" THEN createEffectiveEnv(body.llmConfig, srv)
           ELSE srv
         providerName == or(effectiveEnv.AI_PROVIDER, "openai")
         fn == adapterFor(providerName, body.stream)
     IN  /\ adp' = StartAdapter(fn, body.messages.list, effectiveEnv, FALSE)
         /\ IF ~body.messages.given \/ ~body.messages.isArray
            THEN Respond(h0, ErrorResponse(400, <<"Invalid request: messages required">>))
            ELSE /\ hnd' = [h0 EXCEPT !.pc = "awaiting", !.effectiveEnv = effectiveEnv,
                                      !.provider = providerName, !.fn = fn]
                 /\ UNCHANGED resp
  /\ UNCHANGED <<req, srv, fetches>>
  /\ UNCHANGED notChat

\* request.json() resolved: from there to the call of the adapter.
ReadBody(body) ==
  /\ hnd.pc = "readBody"
  /\ LET h0 == [hnd EXCEPT !.body = body]
     IN  IF ~body.messages.given \/ ~body.messages.isArray
         THEN /\ Respond(h0, ErrorResponse(400, <<"Invalid request: messages required">>))
              /\ UNCHANGED adp
         ELSE LET hasCustomLLM ==
                    IF req.handler = "edge"
                    THEN body.llmConfig.given /\ truthy(body.llmConfig.apiKey)
                    ELSE FALSE
                  effectiveExempt ==
                    IF req.handler = "edge" THEN hnd.exempt \/ hasCustomLLM
                    ELSE hnd.exempt
                  effectiveEnv ==
                    IF req.handler = "edge" THEN createEffectiveEnv(body.llmConfig, srv)
                    ELSE srv
                  providerName == or(effectiveEnv.AI_PROVIDER, "openai")
                  fn == adapterFor(providerName, body.stream)
              IN  /\ hnd' = [h0 EXCEPT !.pc = "awaiting",
                                       !.hasCustomLLM = hasCustomLLM,
                                       !.effectiveExempt = effectiveExempt,
                                       !.effectiveEnv = effectiveEnv,
                                       !.provider = providerName, !.fn = fn]
                  /\ adp' = StartAdapter(fn, body.messages.list, effectiveEnv,
                                         body.stream /\ effectiveExempt)
                  /\ UNCHANGED resp
  /\ UNCHANGED <<req, srv, fetches>>
  /\ UNCHANGED notChat

\* The adapter settled.  The streaming branch returns the adapter's promise
\* without awaiting it, so its rejection passes the catch by; the other
\* branch awaits inside the try.
HandlerFinish ==
  /\ hnd.pc = "awaiting" /\ adp.pc = "done"
  /\ IF hnd.body.stream
     THEN IF adp.result.kind = "stream" THEN Respond(hnd, PassedOn(adp.result))
          ELSE Respond(hnd, Rejected(adp.result.error))
     ELSE IF adp.result.kind = "text"
          THEN Respond(hnd, ContentResponse(adp.result.text, hnd.effectiveExempt))
          ELSE Respond(hnd, ErrorResponse(500, adp.result.error))
  /\ UNCHANGED <<req, srv, adp, fetches>>
  /\ UNCHANGED notChat

ChatNext ==
  \/ HandlerStart
  \/ BodyRejected
  \/ \E body \in ChatBodies : ReadBody(body)
  \/ AdapterSend
  \/ \E r \in UpstreamResponses : FetchResolve(r)
  \/ FetchReject
  \/ HandlerFinish

SpecChat == ChatInit /\ [][ChatNext]_vars

\* A field of the override that is there: neither undefined nor empty.
present(v) == v # Undef /\ v # ""

\* C7 (environment override precedence): the effective environment the edge
\* handler gets from createEffectiveEnv is the server defaults exactly when
\* the override is absent or has no API key (its other fields are ignored);
\* otherwise apiKey is the override's and each of provider, baseUrl and
\* modelId is the override's when present there (non-empty) and the server
\* default when not, field by field.
C7_OverridePrecedence ==
  (req.handler = "edge" /\ hnd.pc \in {"awaiting", "done"} /\ hnd.fn # "none") =>
    LET cfg == hnd.body.llmConfig
        defaults == getEnv(srv)
        e == hnd.effectiveEnv
    IN  IF ~cfg.given \/ ~present(cfg.apiKey) THEN e = defaults
        ELSE /\ DOMAIN e = {"AI_PROVIDER", "AI_BASE_URL", "AI_API_KEY", "AI_MODEL_ID"}
             /\ e.AI_API_KEY = cfg.apiKey
             /\ e.AI_PROVIDER =
                  (IF present(cfg.provider) THEN cfg.provider ELSE defaults.AI_PROVIDER)
             /\ e.AI_BASE_URL =
                  (IF present(cfg.baseUrl) THEN cfg.baseUrl ELSE defaults.AI_BASE_URL)
             /\ e.AI_MODEL_ID =
                  (IF present(cfg.modelId) THEN cfg.modelId ELSE defaults.AI_MODEL_ID)

\* C7 witness: an override with an API key and a provider but no base URL
\* went through the edge handler while the server had its own key and
\* provider; the adapter was sent to the override's provider with the
\* override's key and the default base URL.  And one without a key, with a
\* provider, left the server defaults in place.
C7_Witness ==
  /\ req.handler = "edge" /\ hnd.pc = "done" /\ Len(fetches) = 1
  /\ srv.AI_API_KEY = "sk-1" /\ srv.AI_PROVIDER = "azure" /\ srv.AI_BASE_URL = Undef
  /\ hnd.body.llmConfig.given
  /\ hnd.body.llmConfig.provider = "anthropic"
  /\ hnd.body.llmConfig.baseUrl = Undef
  /\ \/ /\ hnd.body.llmConfig.apiKey = "sk-own"
        /\ hnd.effectiveEnv.AI_API_KEY = "sk-own"
        /\ hnd.effectiveEnv.AI_PROVIDER = "anthropic"
        /\ hnd.effectiveEnv.AI_BASE_URL = DEFAULT_BASE_URL
        /\ fetches[1].url = <<DEFAULT_BASE_URL, "/messages">>
     \/ /\ hnd.body.llmConfig.apiKey = ""
        /\ hnd.body.llmConfig.modelId = "m2"
        /\ hnd.effectiveEnv.AI_API_KEY = "sk-1"
        /\ hnd.effectiveEnv.AI_PROVIDER = "azure"
        /\ hnd.effectiveEnv.AI_MODEL_ID = "m1"
        /\ fetches[1].url = <<DEFAULT_BASE_URL, "/chat/completions">>

\* C8 (the two exemption signals OR together): every accepted chat request
\* that is answered with the model's output, by either handler and in either
\* mode, carries X-Quota-Exempt 'true' exactly when the password check
\* reported exempt or the body has a client override with an API key, and
\* 'false' otherwise.
C8_ExemptSignalsOr ==
  (hnd.pc = "done" /\ resp.status = 200 /\ resp.kind \in {"json", "stream"}) =>
    LET cfg == hnd.body.llmConfig
        expected == hnd.exempt \/ (cfg.given /\ present(cfg.apiKey))
    IN  resp.exemptHeader = (IF expected THEN "true" ELSE "false")

\* C11 (a non-2xx upstream response is a hard error, not retried): a call of
\* callOpenAI, callAnthropic, streamOpenAI or streamAnthropic never sends more
\* than one upstream request, has sent exactly one once it holds a key and
\* has passed its fetch, and when the response is not 2xx it ends with an
\* error that contains the upstream body unchanged, with no output stream.
C11_NonOkIsHardError ==
  /\ Len(fetches) <= 1
  /\ adp.pc = "fetching" => Len(fetches) = 1
  /\ (adp.pc = "done" /\ adp.response # NoUpstream /\ ~adp.response.ok) =>
       /\ Len(fetches) = 1
       /\ adp.result.kind = "error"
       /\ Len(adp.result.error) = 2
       /\ adp.result.error[2] = adp.response.text

\* C11 witness: streamOpenAI got a non-2xx response with the body
\* "rate limited" and ended with "OpenAI API error: rate limited" after one
\* request.
C11_Witness ==
  /\ adp.pc = "done" /\ adp.fn = "streamOpenAI"
  /\ ~adp.response.ok /\ adp.response.text = "rate limited"
  /\ adp.result = Threw(<<"OpenAI API error: ", "rate limited">>)
  /\ Len(fetches) = 1

\* C12 (a missing API key is a terminal configuration error): an adapter
\* whose environment has an empty apiKey never sends an upstream request and
\* ends with 'AI_API_KEY not configured'.
C12_MissingKeyIsTerminal ==
  (adp.pc # "idle" /\ adp.env.AI_API_KEY \in {"", Undef}) =>
    /\ fetches = <<>>
    /\ adp.pc \in {"start", "done"}
    /\ adp.pc = "done" => adp.result = Threw(NotConfigured)

\* C12 witness: streamAnthropic called without a key ended with the
\* configuration error and nothing was sent.
C12_Witness ==
  /\ adp.pc = "done" /\ adp.fn = "streamAnthropic" /\ adp.env.AI_API_KEY = ""
  /\ adp.result = Threw(NotConfigured)
  /\ fetches = <<>>

\* A line that is the malformed frame `data: {not json`.
isMalformedLine(line) == trim(line) = MalformedFrame

isWellFormedLine(line) == ~isMalformedLine(line)

\* C13 (malformed frame tolerance): when the upstream ends normally and the
\* consumer stayed, the chunks written are those of the body with its
\* `data: {not json` lines taken out, in order, and the output was closed
\* after the end of the upstream; the body of section 8 with a malformed
\* line between its two deltas gives ab, cd, [DONE].
C13_MalformedTolerated ==
  (ppc = "ended" /\ pumpEnd = "eof" /\ ~aborted) =>
    /\ closed = 1
    /\ out = writesOfLines(provider,
                           SelectSeq(afterPop(split(upstream)), isWellFormedLine))
    /\ (provider = "openai" /\ upstream = MalformedExample) =>
         out = <<DeltaEvent("ab"), DeltaEvent("cd"), DoneEvent>>

\* C13 witness: the section 8 body with the malformed line went through
\* streamOpenAI to the end of the upstream.
C13_Witness ==
  /\ provider = "openai" /\ upstream = MalformedExample
  /\ ppc = "ended" /\ pumpEnd = "eof" /\ closed = 1 /\ ~aborted
  /\ out = <<DeltaEvent("ab"), DeltaEvent("cd"), DoneEvent>>

\* C14 (every canonical stream ends with the sentinel): for both providers,
\* when the upstream ended normally and the consumer stayed, the last chunk
\* written before the output closed is `data: [DONE]` (a stream that wrote
\* nothing at all is left aside).
C14_SentinelTerminates ==
  (ppc = "ended" /\ pumpEnd = "eof" /\ ~aborted /\ out # <<>>) =>
    out[Len(out)] = DoneEvent

ErrorToasts == Cardinality({i \in DOMAIN toasts : toasts[i].kind = "error"})

\* C15 (one outcome per generation): a finished generate call that started
\* with a current project is either a success (a payload installed as editor
\* content, the assistant message 'complete', no error reported) or a single
\* terminal error (the assistant message 'error', one error reported, the
\* editor content as it was before the call, nothing installed); never both.
C15_OneOutcome ==
  (call.pc = "done" /\ call.outcome # "noproject") =>
    LET status == chat.messages[call.assistantMsgId].status IN
    \/ /\ call.outcome = "success" /\ status = "complete"
       /\ call.installed # <<>>
       /\ editor.currentContent = call.installed[Len(call.installed)]
       /\ ErrorToasts = 0
    \/ /\ call.outcome = "error" /\ status = "error"
       /\ ErrorToasts = 1
       /\ call.installed = <<>>
       /\ editor.currentContent = call.contentBefore

\* The adapter failed for want of an API key or on a non-2xx response.
AdapterFailed ==
  /\ adp.pc = "done" /\ adp.result.kind = "error"
  /\ \/ adp.result.error = NotConfigured
     \/ adp.response # NoUpstream /\ ~adp.response.ok

\* C16 (upstream errors reach the caller in both modes): when a request has
\* passed the password and messages checks and the adapter failed (missing
\* API key or non-2xx upstream), the handler's response is an HTTP 500 JSON
\* whose error is the adapter's message, upstream body included, in streaming
\* and in non-streaming mode.
C16_ErrorsReachCaller ==
  (hnd.pc = "done" /\ hnd.fn # "none" /\ AdapterFailed) =>
    resp = ErrorResponse(500, adp.result.error)

\* The image_url parts of a list that carry a URL, in order.
hasUrl(part) == part.type = "image_url" /\ part.url # <<>>

\* The converted parts that come from an image_url part: the images, and the
\* texts that quote a URL.
fromImageUrl(part) ==
  \/ part.type = "image"
  \/ part.type = "text" /\ Len(part.text) > 0 /\ part.text[1] = "[Image URL: "

\* A URL of the form data:<mime>;base64,<payload>.
isDataBase64(url) ==
  Len(url) = 4 /\ url[1] = DataScheme /\ url[3] = Base64Mark /\ url[4] # ""

\* The same with an image/... mime type.
isImageDataBase64(url) == isDataBase64(url) /\ url[2] \in ImageMimes

\* The part lists of the messages an Anthropic adapter has sent, each with
\* the list it was converted from.
ConvertedPairs ==
  IF adp.fn \in AnthropicFns /\ Len(fetches) = 1
  THEN LET rest == nonSystemMessages(adp.messages) IN
       {<<rest[i].content.parts, fetches[1].body.messages[i].content.parts>> :
          i \in {j \in DOMAIN rest : ~rest[j].content.isString}}
  ELSE {}

\* What the conversion did to the image_url parts of one list, given which
\* URLs are to become images.
ImagesConverted(pair, becomesImage(_)) ==
  LET ins == SelectSeq(pair[1], hasUrl)
      outs == SelectSeq(pair[2], fromImageUrl)
  IN  /\ Len(outs) = Len(ins)
      /\ \A i \in DOMAIN ins :
           IF becomesImage(ins[i].url)
           THEN outs[i] = AnthropicImage(ins[i].url[2], ins[i].url[4])
           ELSE outs[i] = AnthropicText(<<"[Image URL: ">> \o ins[i].url \o <<"]">>)

\* C17 as stated (image part conversion): every image_url part whose URL has
\* the form data:<mime>;base64,<payload> becomes an image part with that
\* media_type and data, and every other image_url part with a URL becomes a
\* text part containing the URL.
C17_AnyMimeBecomesImage ==
  \A pair \in ConvertedPairs : ImagesConverted(pair, isDataBase64)

\* C17 amended: an image_url part becomes an image part (media_type = the
\* mime, data = the payload) exactly when its URL has the form
\* data:image/<subtype>;base64,<payload>; every other image_url part with a
\* URL, a remote URL or a data: URI of another mime type or shape, becomes a
\* text part containing the URL; the request is sent in every case.
C17_ImageConversion ==
  /\ \A pair \in ConvertedPairs : ImagesConverted(pair, isImageDataBase64)
  /\ (adp.fn \in AnthropicFns /\ adp.pc \in {"fetching", "done"}
        /\ adp.env.AI_API_KEY = "sk-1") => Len(fetches) = 1

\* C17 witness: a message with a data:image/png URL, a remote URL and a
\* data:text/plain URL was sent by callAnthropic as an image part
\* (image/png, AAAA) and two text parts quoting the URLs.
C17_Witness ==
  /\ adp.fn = "callAnthropic" /\ Len(fetches) = 1
  /\ adp.messages = <<UserPartsMessage>>
  /\ fetches[1].body.messages[1].content.parts =
       <<AnthropicText(<<"look">>),
         AnthropicImage("image/png", "AAAA"),
         AnthropicText(<<"[Image URL: ">> \o RemoteUrl \o <<"]">>),
         AnthropicText(<<"[Image URL: ">> \o DataTextUrl \o <<"]">>)>>

\* The pump with the fairness its own code gives: once started it runs to
\* its first read, and the for loop over the lines of a read runs to its
\* end.  Nothing is assumed of the upstream: a pending reader.read() may
\* stay pending.
SpecStreamFair ==
  StreamInit /\ [][StreamNext]_vars /\ WF_vars(PumpStart) /\ WF_vars(Line)

\* C18 (cancellation when the consumer disconnects): once the consumer of
\* the streaming response has aborted, the pump eventually releases the
\* upstream reader, whatever the upstream does from then on.
C18_AbortReleases == (aborted /\ hasBody) ~> (released = 1)

\* The call ended on a failed model request.
EndedOnModelFailure ==
  /\ call.pc = "done" /\ call.outcome = "error"
  /\ call.error.kind = "thrown" /\ call.error.detail \in ModelErrors

\* C19 (transport failures are never retried): when a model request fails,
\* in the initial generation or in any fix attempt, generate ends with a
\* terminal error carrying that failure's message, the failed request is the
\* last model request and no validator call follows it; and every model
\* request after the first was issued right after a validator answer of
\* invalid, one answer per request.
C19_TransportNotRetried ==
  /\ EndedOnModelFailure =>
       /\ toasts = <<[kind |-> "error", error |-> call.error]>>
       /\ chat.messages[call.assistantMsgId].status = "error"
       /\ Len(valLog) = modelCalls[Len(modelCalls)].afterVal
       /\ Len(modelCalls) = 1 + call.attempts
       /\ call.installed = <<>>
  /\ \A i \in DOMAIN modelCalls :
       i > 1 =>
         /\ modelCalls[i].afterVal = i - 1
         /\ modelCalls[i].afterVal <= Len(valLog)
         /\ ~valLog[modelCalls[i].afterVal].valid

\* C19 witness: the second fix request failed; the call ended with that
\* failure's message after three model requests and two validator calls.
C19_Witness ==
  /\ EndedOnModelFailure
  /\ call.attempts = 2 /\ Len(modelCalls) = 3 /\ Len(valLog) = 2
  /\ toasts = <<[kind |-> "error", error |-> ThrownError("upstream failed")]>>

\* All three fix attempts ended invalid: the first validation and the three
\* validations of the loop answered invalid, and the caller has validated
\* again what the loop returned.
Exhausted ==
  /\ call.engineType = "mermaid" /\ call.attempts = 3
  /\ Len(valLog) = 5
  /\ \A i \in 1..4 : ~valLog[i].valid

\* C20 (the terminal error after exhaustion carries the last attempt's
\* message): when all 3 fix attempts ended invalid, the validator call whose
\* answer decides the outcome is a call on the third fix attempt's payload,
\* and the error generate surfaces is "Invalid mermaid output" with the
\* message of that answer, also when the validator's answers for that
\* payload differ between its calls.
C20_LastAttemptMessage ==
  Exhausted =>
    /\ valLog[4].code = call.fixedCode
    /\ valLog[5].code = call.fixedCode
    /\ ~valLog[5].valid =>
         /\ call.pc = "done" /\ call.outcome = "error"
         /\ call.error.kind = "invalid" /\ call.error.engine = "mermaid"
         /\ call.error.detail = valLog[5].error
         /\ toasts = <<[kind |-> "error", error |-> call.error]>>
    /\ (call.pc = "done" /\ call.error.kind = "invalid") => ~valLog[5].valid

\* C20 witness: the validator answered e1 for the third fix payload inside
\* the loop and e2 for the same payload afterwards; the error surfaced
\* carries e2.
C20_Witness ==
  /\ Exhausted /\ call.pc = "done"
  /\ valLog[4].error = "e1" /\ valLog[5].error = "e2"
  /\ valLog[4].code = valLog[5].code
  /\ call.error = [kind |-> "invalid", engine |-> "mermaid", detail |-> "e2"]

\* The error text a fix prompt shows for a validator answer: the answer's
\* message, or 'Unknown error' when the answer has none.
shownError(v) == IF v.error = Undef THEN "Unknown error" ELSE v.error

\* C21 (fix prompt chaining): the fix request of attempt k (k = 1..3) is the
\* (k+1)-th model request and embeds the payload of the k-th validator call
\* and the error of that call's answer: the initial payload and error for
\* k = 1, the payload extracted in attempt k-1 and its error for k = 2, 3.
C21_FixPromptChaining ==
  \A i \in DOMAIN modelCalls :
    modelCalls[i].kind = "fix" =>
      LET k == modelCalls[i].attempt IN
      /\ i = k + 1
      /\ k <= Len(valLog)
      /\ ~valLog[k].valid
      /\ modelCalls[i].code = valLog[k].code
      /\ modelCalls[i].error = shownError(valLog[k])

\* C21 witness: three fix requests whose payloads and errors changed from
\* one attempt to the next.
C21_Witness ==
  /\ FixCalls = 3 /\ Len(valLog) >= 3
  /\ valLog[1].code = 1 /\ valLog[2].code = 2 /\ valLog[3].code = 1
  /\ valLog[1].error = "e1" /\ valLog[2].error = "e2" /\ valLog[3].error = "e1"
  /\ modelCalls[3].code = 2 /\ modelCalls[3].error = "e2"
  /\ modelCalls[4].code = 1 /\ modelCalls[4].error = "e1"

\* The frame of a provider that carries the text t.
FrameOf(prov, t) == IF prov = "anthropic" THEN AnthropicFrame(t) ELSE OpenAIFrame(t)

\* What a line is to give: {content: t} for the provider's own delta frame
\* with a non-empty text t, the sentinel for `data: [DONE]`, nothing else.
expectedOf(prov, line) ==
  IF \E t \in Texts : trim(line) = FrameOf(prov, t)
  THEN <<DeltaEvent(CHOOSE t \in Texts : trim(line) = FrameOf(prov, t))>>
  ELSE IF trim(line) = DoneFrame THEN <<DoneEvent>>
  ELSE <<>>

RECURSIVE expectedOfLines(_, _)
expectedOfLines(prov, lines) ==
  IF lines = <<>> THEN <<>>
  ELSE expectedOf(prov, Head(lines)) \o expectedOfLines(prov, Tail(lines))

TwoPhaseEngines == {"drawio", "excalidraw"}

\* C23 (both prompting modes, chosen by engine): an initial generation
\* starts with the elements request of the multi-phase path when the
\* project's engine is a two-phase engine and with the single-phase request
\* otherwise, and a connections request comes right after the elements
\* request and contains its extracted output.
C23_ModeByEngine ==
  (call.pc \notin {"idle"} /\ call.outcome # "noproject" /\ call.isInitial) =>
    /\ modelCalls[1].kind =
         (IF call.engineType \in TwoPhaseEngines THEN "elements" ELSE "initial")
    /\ \A i \in DOMAIN modelCalls :
         modelCalls[i].kind = "links" =>
           i = 2 /\ modelCalls[1].kind = "elements" /\ modelCalls[i].code \in Payloads

(***************************************************************************)
(* The editor store on its own: its actions called in any order, as the    *)
(* components of the editor call them.                                     *)
(***************************************************************************)
reset(s) == initialState

\* What the editor may hold: '' (0) or a payload.
Contents == {0} \cup Payloads

EditorInit == GenIdle /\ StreamIdle /\ AdapterIdle /\ ChatIdle /\ OverlapIdle

\* The frame of a store action.
StoreOnly == UNCHANGED <<chat, call, modelCalls, valLog, versions, project, toasts>>

StoreSetProject(p) == editor' = setProject(editor, p) /\ StoreOnly /\ UNCHANGED notGen

StoreSetContent(content) ==
  editor' = setContent(editor, content) /\ StoreOnly /\ UNCHANGED notGen

StoreSetLoading(loading) ==
  editor' = setLoading(editor, loading) /\ StoreOnly /\ UNCHANGED notGen

StoreSetError(e) == editor' = setError(editor, e) /\ StoreOnly /\ UNCHANGED notGen

StoreMarkAsSaved ==
  /\ editor.versionSaveCount < MaxSaves
  /\ editor' = markAsSaved(editor)
  /\ StoreOnly /\ UNCHANGED notGen

StoreSetContentFromVersion(content) ==
  editor' = setContentFromVersion(editor, content) /\ StoreOnly /\ UNCHANGED notGen

StoreSetThumbnailGetter(g) ==
  editor' = setThumbnailGetter(editor, g) /\ StoreOnly /\ UNCHANGED notGen

StoreReset == editor' = reset(editor) /\ StoreOnly /\ UNCHANGED notGen

EditorNext ==
  \/ \E p \in {"null"} \cup Engines : StoreSetProject(p)
  \/ \E content \in Contents : StoreSetContent(content)
  \/ \E loading \in BOOLEAN : StoreSetLoading(loading)
  \/ \E e \in {"null", "failed"} : StoreSetError(e)
  \/ StoreMarkAsSaved
  \/ \E content \in Contents : StoreSetContentFromVersion(content)
  \/ \E g \in BOOLEAN : StoreSetThumbnailGetter(g)
  \/ StoreReset

SpecEditor == EditorInit /\ [][EditorNext]_vars

\* C24 (dirty flag of the editor store): after any sequence of the store's
\* actions, hasUnsavedChanges is true exactly when currentContent differs
\* from lastSavedContent.
C24_DirtyFlag ==
  editor.hasUnsavedChanges <=> (editor.currentContent # editor.lastSavedContent)

\* C24 witness: content was saved by hand and edited afterwards; the flag is
\* up and the saved content is the older one.
C24_Witness ==
  /\ editor.versionSaveCount = 1
  /\ editor.lastSavedContent = 1 /\ editor.currentContent = 2
  /\ editor.hasUnsavedChanges

\* C25 (busy flags are always cleared): a generate call that got past the
\* current-project check and has ended, in whatever way, has left the
\* streaming flag and the loading flag false and its assistant placeholder
\* with status 'complete' or 'error'.
C25_BusyFlagsCleared ==
  (call.pc = "done" /\ call.outcome # "noproject") =>
    /\ ~chat.isStreaming
    /\ ~editor.isLoading
    /\ chat.messages[call.assistantMsgId].role = "assistant"
    /\ chat.messages[call.assistantMsgId].status \in {"complete", "error"}

\* C25 witness: a call ended by a persistence failure after the version was
\* saved; the flags are down and the placeholder reads 'error'.
C25_Witness ==
  /\ call.pc = "done" /\ call.outcome = "error"
  /\ versions # <<>>
  /\ ~chat.isStreaming /\ ~editor.isLoading
  /\ chat.messages[call.assistantMsgId].status = "error"

(***************************************************************************)
(* Several generate calls on the same stores.  generate has no re-entry    *)
(* guard: a second call may start while the first is suspended at one of   *)
(* its awaits.  Each call is followed from its start to the two places     *)
(* that touch the busy flags and the placeholder; the model requests, the  *)
(* validations and the repositories of a call are those of SpecGen and are *)
(* folded here into the call's outcome (it installs a payload or it        *)
(* throws).                                                                *)
(***************************************************************************)
CallIds == 1..MaxCalls

idleOverlapCall == [pc |-> "idle", assistantMsgId |-> 0, outcome |-> "none"]

OverlapInit ==
  /\ \E p \in {"null"} \cup Engines :
       editor = [initialState EXCEPT !.currentProject = p]
  /\ chat = [isStreaming |-> FALSE, messages |-> <<>>]
  /\ call = idleCall
  /\ modelCalls = <<>> /\ valLog = <<>> /\ versions = <<>>
  /\ project = [thumbnail |-> 0, updates |-> 0]
  /\ toasts = <<>>
  /\ calls = [i \in CallIds |-> idleOverlapCall]
  /\ StreamIdle /\ AdapterIdle /\ ChatIdle

\* What the steps of overlapping calls leave alone.
notOverlap == <<call, modelCalls, valLog, versions, project, strVars, adpVars, hndVars>>

\* In flight: past the project check and not yet through the finally block.
InFlight(i) == calls[i].pc \in {"generating", "saving"}

\* generate(userInput, isInitial) of call i up to its first await.
OverlapGenerate(i) ==
  /\ calls[i].pc = "idle"
  /\ IF editor.currentProject = "null"
     THEN /\ calls' = [calls EXCEPT ![i].pc = "done", ![i].outcome = "noproject"]
          /\ UNCHANGED <<editor, chat>>
     ELSE LET withUser == addMessage(chat, [role |-> "user", status |-> "complete", content |-> "input"])
              withBoth == addMessage(withUser, [role |-> "assistant", status |-> "streaming", content |-> ""])
          IN /\ chat' = setStreaming(withBoth, TRUE)
             /\ editor' = setLoading(editor, TRUE)
             /\ calls' = [calls EXCEPT ![i].pc = "generating",
                                       ![i].assistantMsgId = Len(withBoth.messages)]
  /\ UNCHANGED toasts
  /\ UNCHANGED notOverlap

\* The payload of call i passed validation: it is installed and the
\* placeholder reads 'complete'; the call goes on to its repository awaits.
OverlapInstall(i, code) ==
  /\ calls[i].pc = "generating"
  /\ editor' = setContentFromVersion(editor, code)
  /\ chat' = updateMessage(chat, calls[i].assistantMsgId, "complete", "done")
  /\ calls' = [calls EXCEPT ![i].pc = "saving"]
  /\ UNCHANGED toasts
  /\ UNCHANGED notOverlap

\* Something call i awaited threw: catch, then finally.
OverlapThrow(i) ==
  /\ InFlight(i)
  /\ chat' = setStreaming(updateMessage(chat, calls[i].assistantMsgId, "error", "Error"), FALSE)
  /\ editor' = setLoading(editor, FALSE)
  /\ toasts' = Append(toasts, [kind |-> "error", error |-> "failed"])
  /\ calls' = [calls EXCEPT ![i].pc = "done", ![i].outcome = "error"]
  /\ UNCHANGED notOverlap

\* The last await of call i resolved: the success toast, then finally.
OverlapFinish(i) ==
  /\ calls[i].pc = "saving"
  /\ toasts' = Append(toasts, [kind |-> "success", error |-> NoError])
  /\ chat' = setStreaming(chat, FALSE)
  /\ editor' = setLoading(editor, FALSE)
  /\ calls' = [calls EXCEPT ![i].pc = "done", ![i].outcome = "success"]
  /\ UNCHANGED notOverlap

OverlapNext ==
  \/ \E i \in CallIds : OverlapGenerate(i)
  \/ \E i \in CallIds, code \in Payloads : OverlapInstall(i, code)
  \/ \E i \in CallIds : OverlapThrow(i)
  \/ \E i \in CallIds : OverlapFinish(i)

SpecOverlap == OverlapInit /\ [][OverlapNext]_vars

\* C26 (busy flags under overlapping calls): whenever at least one generate
\* call is in flight, the streaming flag and the loading flag are true, also
\* when two calls on the same stores overlap and one finishes first.
C26_BusyWhileInFlight ==
  (\E i \in CallIds : InFlight(i)) => (chat.isStreaming /\ editor.isLoading)

\* The password the handler's check compares against.
configuredPasswordOf(handler) ==
  IF handler = "edge" THEN getEnv(srv).ACCESS_PASSWORD ELSE srv.ACCESS_PASSWORD

\* C27 (password check outcomes): once a handler has run
\* validateAccessPassword, exempt is true only when a password is configured
\* and the request's X-Access-Password equals it; valid is false only when a
\* password is configured and the request carries a non-empty different one;
\* in every other case valid is true and exempt is false; exempt implies
\* valid.
C27_PasswordOutcomes ==
  (req.method = "POST" /\ hnd.pc \in {"readBody", "awaiting", "done"}) =>
    LET configured == configuredPasswordOf(req.handler)
        sent == req.password
        right == present(configured) /\ sent = configured
        wrong == present(configured) /\ present(sent) /\ sent # configured
    IN  /\ hnd.exempt => right
        /\ ~hnd.valid => wrong
        /\ (~right /\ ~wrong) => (hnd.valid /\ ~hnd.exempt)
        /\ hnd.exempt => hnd.valid

\* C27 witness: a password is configured and the request came without one
\* (or with an empty one); it passed the check and is not exempt.
C27_Witness ==
  /\ req.method = "POST" /\ hnd.pc = "readBody"
  /\ srv.ACCESS_PASSWORD = "pw" /\ req.password \in {Undef, ""}
  /\ hnd.valid /\ ~hnd.exempt

\* The handler turned the request away: 405, 401 or 400.
RejectedRequest == resp.kind = "json" /\ resp.status \in {405, 401, 400}

\* C28 (rejected requests never reach the provider): when the handler
\* answers 405, 401 or 400, no adapter was entered and no upstream request
\* was sent; and the password check is decided before the body is read: a
\* 405 or 401 leaves the body unread, and a body that was read belongs to a
\* request that passed the check.
C28_RejectedNeverReachProvider ==
  /\ RejectedRequest => (fetches = <<>> /\ adp = idleAdp)
  /\ (resp.kind = "json" /\ resp.status \in {405, 401}) => hnd.body = NoBody
  /\ hnd.body # NoBody => hnd.valid

\* C28 witness: a request with a key configured upstream and a body whose
\* messages are not an array was answered 400 with nothing sent.
C28_Witness ==
  /\ resp.kind = "json" /\ resp.status = 400
  /\ srv.AI_API_KEY = "sk-1"
  /\ hnd.body # NoBody /\ hnd.body.messages.given /\ ~hnd.body.messages.isArray
  /\ fetches = <<>>

\* The lines of a text that are followed by a newline, in order; what comes
\* after the last newline is no such line.
RECURSIVE terminatedLines(_)
terminatedLines(s) ==
  IF \E i \in 1..Len(s) : s[i] = NL
  THEN LET i == CHOOSE j \in 1..Len(s) : s[j] = NL /\ \A k \in 1..(j - 1) : s[k] # NL
       IN <<SubSeq(s, 1, i - 1)>> \o terminatedLines(SubSeq(s, i + 1, Len(s)))
  ELSE <<>>

IsPrefix(a, b) == Len(a) <= Len(b) /\ a = SubSeq(b, 1, Len(a))

\* C29 (the unterminated tail is dropped at upstream end): at every moment
\* the chunks written come from lines of the delivered text that are
\* followed by a newline; and when the upstream has ended, the chunks are
\* those of the newline-terminated lines alone: a last line without a
\* newline, even a complete delta frame or `data: [DONE]`, gives nothing.
C29_TailDropped ==
  /\ IsPrefix(out, expectedOfLines(provider, terminatedLines(SubSeq(upstream, 1, pos))))
  /\ (ppc = "ended" /\ pumpEnd = "eof" /\ ~aborted) =>
       out = expectedOfLines(provider, terminatedLines(upstream))

\* C29 witness: the upstream ended right after `data: [DONE]` with no newline
\* behind it; the delta before it was written, the sentinel was not.
C29_Witness ==
  /\ provider = "openai"
  /\ upstream = OpenAIFrame("ab") \o <<NL>> \o DoneFrame
  /\ ppc = "ended" /\ pumpEnd = "eof" /\ ~aborted
  /\ buffer = DoneFrame
  /\ out = <<DeltaEvent("ab")>>

\* `effectiveEnv.AI_PROVIDER || 'openai'` of a dispatched request.
effectiveProvider ==
  IF present(hnd.effectiveEnv.AI_PROVIDER) THEN hnd.effectiveEnv.AI_PROVIDER
  ELSE "openai"

AnthropicFamily == {"streamAnthropic", "callAnthropic"}

OpenAIFamily == {"streamOpenAI", "callOpenAI"}

\* C30 (provider dispatch): a request the handler hands to an adapter goes
\* to the Anthropic adapter exactly when the effective provider is
\* 'anthropic' and to the OpenAI-compatible adapter for every other value
\* (empty, missing or unknown); the streaming flag picks the streaming or
\* the non-streaming adapter of that same family, and the adapter entered is
\* the one chosen.
C30_ProviderDispatch ==
  (hnd.fn # "none") =>
    /\ hnd.fn \in AnthropicFamily <=> effectiveProvider = "anthropic"
    /\ hnd.fn \in OpenAIFamily <=> effectiveProvider # "anthropic"
    /\ hnd.fn \in StreamFns <=> hnd.body.stream
    /\ adp.fn = hnd.fn

\* C30 witness: the edge handler got provider 'anthropic' from the client's
\* override, on a server configured otherwise, and streams through
\* streamAnthropic.
C30_Witness ==
  /\ req.handler = "edge" /\ srv.AI_PROVIDER # "anthropic"
  /\ hnd.body # NoBody /\ hnd.body.stream
  /\ hnd.effectiveEnv.AI_PROVIDER = "anthropic"
  /\ hnd.fn = "streamAnthropic" /\ adp.fn = "streamAnthropic"

====
